---- MODULE Spec2Model ----
(***************************************************************************)
(* Model of Backend/function_app.py: three HTTP handlers (calculate_roi,   *)
(* get_roi_data, detect_anomalies) over one shared blob "roi_data.json"    *)
(* and an external anomaly-detection client.                               *)
(*                                                                         *)
(* Numbers are exact rationals n/d (d > 0, lowest terms) with a flag f     *)
(* telling a Python float from a Python int; the rounding of IEEE doubles  *)
(* is not represented.                                                     *)
(***************************************************************************)
EXTENDS Integers, Sequences, FiniteSets, TLC

\* ---------------------------------------------------------------- bounds
NumProcs == 2
MaxCalls == 2
MaxFlags == 3

Procs == 1 .. NumProcs

\* ------------------------------------------------------ Python values
Null == [t |-> "null"]
Str(s) == [t |-> "str", s |-> s]
Abs(x) == IF x < 0 THEN -x ELSE x

RECURSIVE Gcd(_, _)
Gcd(a, b) == IF b = 0 THEN a ELSE Gcd(b, a % b)

Rat(n, d, f) ==
    LET s == IF d < 0 THEN -1 ELSE 1
        g == Gcd(Abs(n), Abs(d))
    IN  [t |-> "num", n |-> (s * n) \div g, d |-> (s * d) \div g, f |-> f]

PyInt(n) == [t |-> "num", n |-> n, d |-> 1, f |-> FALSE]

IsNum(v) == v.t = "num"
IsStr(v) == v.t = "str"

\* An evaluation either yields a value or raises.
Ok(v) == [raised |-> "", val |-> v]
Raise(e) == [raised |-> e, val |-> Null]

\* a + b
PyAdd(a, b) ==
    IF IsNum(a) /\ IsNum(b)
    THEN Ok(Rat(a.n * b.d + b.n * a.d, a.d * b.d, a.f \/ b.f))
    ELSE IF IsStr(a) /\ IsStr(b) THEN Ok(Str(a.s \o b.s))
    ELSE Raise("TypeError")

\* a - b
PySub(a, b) ==
    IF IsNum(a) /\ IsNum(b)
    THEN Ok(Rat(a.n * b.d - b.n * a.d, a.d * b.d, a.f \/ b.f))
    ELSE Raise("TypeError")

\* a * b; int * str repeats the string (only the type of the repeated
\* string is tracked: every later use of it in calculate_roi raises).
PyMul(a, b) ==
    IF IsNum(a) /\ IsNum(b)
    THEN Ok(Rat(a.n * b.n, a.d * b.d, a.f \/ b.f))
    ELSE IF IsNum(a) /\ ~a.f /\ IsStr(b) THEN Ok(Str(IF a.n <= 0 THEN "" ELSE b.s))
    ELSE IF IsStr(a) /\ IsNum(b) /\ ~b.f THEN Ok(Str(IF b.n <= 0 THEN "" ELSE a.s))
    ELSE Raise("TypeError")

\* a / b (true division: the result is a float)
PyDiv(a, b) ==
    IF IsNum(a) /\ IsNum(b)
    THEN IF b.n = 0 THEN Raise("ZeroDivisionError")
         ELSE Ok(Rat(a.n * b.d, a.d * b.n, TRUE))
    ELSE Raise("TypeError")

\* Chain two evaluations: the first exception wins.
Then(r, F(_)) == IF r.raised # "" THEN r ELSE F(r.val)

\* ------------------------------------------------------------ requests
Fields ==
    <<"project_budget", "employee_impact", "project_duration", "average_salary",
      "risk_level", "industry_type", "previous_success", "leadership_alignment",
      "employee_readiness", "communication_plan", "training_budget">>

FieldSet == {Fields[i] : i \in 1 .. Len(Fields)}

\* req_body.get(k): None when the key is absent or null
Get(body, k) == body[k]

\* line 62 written as a truthiness test: 0 and "" count as missing
MissingInput_Falsy(body) ==
    \E k \in FieldSet :
        \/ Get(body, k) = Null
        \/ IsNum(Get(body, k)) /\ Get(body, k).n = 0
        \/ IsStr(Get(body, k)) /\ Get(body, k).s = ""

\* line 62: None in (project_budget, ..., training_budget)
MissingInput(body) == \E k \in FieldSet : Get(body, k) = Null

\* lines 69-76 with the training budget charged to the project
Calculate_Training(body) ==
    LET lea == PyAdd(Get(body, "leadership_alignment"), Get(body, "employee_readiness"))
        sum == Then(lea, LAMBDA x : PyAdd(x, Get(body, "communication_plan")))
        readiness_score == Then(sum, LAMBDA x : PyDiv(x, PyInt(15)))
        expected_success ==
            Then(readiness_score, LAMBDA x : PyMul(Get(body, "previous_success"), x))
        ei_as == Then(expected_success,
                      LAMBDA x : PyMul(Get(body, "employee_impact"), Get(body, "average_salary")))
        productivity_gain == Then(ei_as, LAMBDA x : PyMul(x, Get(body, "project_duration")))
        fraction == Then(productivity_gain, LAMBDA x : PyDiv(expected_success.val, PyInt(100)))
        gain == Then(fraction, LAMBDA x : PyMul(productivity_gain.val, x))
        cost == Then(gain, LAMBDA x : PyAdd(Get(body, "project_budget"),
                                            Get(body, "training_budget")))
        net_benefit == Then(cost, LAMBDA x : PySub(gain.val, x))
        ratio == Then(net_benefit, LAMBDA x : PyDiv(x, Get(body, "project_budget")))
        roi == Then(ratio, LAMBDA x : PyMul(x, PyInt(100)))
    IN  IF roi.raised # "" THEN Raise(roi.raised)
        ELSE Ok([roi |-> roi.val, net_benefit |-> net_benefit.val,
                 expected_success |-> expected_success.val])

\* lines 69-76
Calculate(body) ==
    LET lea == PyAdd(Get(body, "leadership_alignment"), Get(body, "employee_readiness"))
        sum == Then(lea, LAMBDA x : PyAdd(x, Get(body, "communication_plan")))
        readiness_score == Then(sum, LAMBDA x : PyDiv(x, PyInt(15)))
        expected_success ==
            Then(readiness_score, LAMBDA x : PyMul(Get(body, "previous_success"), x))
        ei_as == Then(expected_success,
                      LAMBDA x : PyMul(Get(body, "employee_impact"), Get(body, "average_salary")))
        productivity_gain == Then(ei_as, LAMBDA x : PyMul(x, Get(body, "project_duration")))
        fraction == Then(productivity_gain, LAMBDA x : PyDiv(expected_success.val, PyInt(100)))
        gain == Then(fraction, LAMBDA x : PyMul(productivity_gain.val, x))
        net_benefit == Then(gain, LAMBDA x : PySub(x, Get(body, "project_budget")))
        ratio == Then(net_benefit, LAMBDA x : PyDiv(x, Get(body, "project_budget")))
        roi == Then(ratio, LAMBDA x : PyMul(x, PyInt(100)))
    IN  IF roi.raised # "" THEN Raise(roi.raised)
        ELSE Ok([roi |-> roi.val, net_benefit |-> net_benefit.val,
                 expected_success |-> expected_success.val])

\* ---------------------------------------------------------------- JSON
\* JSON text is a sequence of tokens: brackets, keys and scalar values.
LBracket == [t |-> "["]
RBracket == [t |-> "]"]
LBrace == [t |-> "{"]
RBrace == [t |-> "}"]
Key(k) == [t |-> "key", s |-> k]

\* keys of new_entry in insertion order (lines 87-95)
EntryKeys ==
    <<"project_budget", "net_benefit", "roi", "expected_success",
      "industry_type", "project_duration", "timestamp">>

RECURSIVE DumpPairs(_, _)
DumpPairs(obj, i) ==
    IF i > Len(EntryKeys) THEN <<>>
    ELSE IF EntryKeys[i] \in DOMAIN obj
         THEN <<Key(EntryKeys[i]), obj[EntryKeys[i]]>> \o DumpPairs(obj, i + 1)
         ELSE DumpPairs(obj, i + 1)

DumpObj(obj) == <<LBrace>> \o DumpPairs(obj, 1) \o <<RBrace>>

RECURSIVE DumpItems(_, _)
DumpItems(list, i) ==
    IF i > Len(list) THEN <<>> ELSE DumpObj(list[i]) \o DumpItems(list, i + 1)

\* json.dumps(existing_data)
JsonDumps(list) == <<LBracket>> \o DumpItems(list, 1) \o <<RBracket>>

\* parse the pairs of one object from position i: the dict and the position
\* after its closing brace, or next = 0 when the text is malformed
RECURSIVE ParsePairs(_, _, _)
ParsePairs(text, i, obj) ==
    IF i > Len(text) THEN [obj |-> obj, next |-> 0]
    ELSE IF text[i] = RBrace THEN [obj |-> obj, next |-> i + 1]
    ELSE IF text[i].t = "key" /\ i + 1 <= Len(text)
            /\ text[i + 1].t \in {"num", "str", "null"}
         THEN ParsePairs(text, i + 2, (text[i].s :> text[i + 1]) @@ obj)
         ELSE [obj |-> obj, next |-> 0]

RECURSIVE ParseItems(_, _, _)
ParseItems(text, i, list) ==
    IF i > Len(text) THEN Raise("JSONDecodeError")
    ELSE IF text[i] = RBracket
         THEN IF i = Len(text) THEN Ok(list) ELSE Raise("JSONDecodeError")
    ELSE IF text[i] = LBrace
         THEN LET r == ParsePairs(text, i + 1, <<>>)
              IN  IF r.next = 0 THEN Raise("JSONDecodeError")
                  ELSE ParseItems(text, r.next, Append(list, r.obj))
         ELSE Raise("JSONDecodeError")

\* json.loads(text) for a text holding an array of objects
JsonLoads(text) ==
    IF Len(text) = 0 \/ text[1] # LBracket THEN Raise("JSONDecodeError")
    ELSE ParseItems(text, 2, <<>>)

\* ---------------------------------------------------------------- store
\* the blob roi_data.json: absent, or present with some content
NoBlob == [exists |-> FALSE, content |-> <<>>]
EmptyBlob == [exists |-> TRUE, content |-> <<>>]
CorruptBlob == [exists |-> TRUE, content |-> <<LBracket, LBrace>>]
BlobOf(text) == [exists |-> TRUE, content |-> text]

\* json.loads(blob_client.download_blob().readall().decode("utf-8"))
\* fault: the download raises although the blob is there (network, auth)
ReadStore(b, fault) ==
    IF fault THEN Raise("ServiceRequestError")
    ELSE IF ~b.exists THEN Raise("ResourceNotFoundError")
    ELSE JsonLoads(b.content)

\* lines 82-85: a failed read is taken for an empty history
ReadForAppend(b, fault) ==
    LET r == ReadStore(b, fault) IN IF r.raised # "" THEN <<>> ELSE r.val

\* the History the store holds (empty when there is none to read)
History(b) == IF ReadStore(b, FALSE).raised # "" THEN <<>> ELSE ReadStore(b, FALSE).val

\* lines 87-95
NewEntry(body, calc, now) ==
    [project_budget |-> Get(body, "project_budget"),
     net_benefit |-> calc.net_benefit,
     roi |-> calc.roi,
     expected_success |-> calc.expected_success,
     industry_type |-> Get(body, "industry_type"),
     project_duration |-> Get(body, "project_duration"),
     timestamp |-> Str(now)]

\* lines 96-98 storing the new record alone
Upload_Truncate(existing, entry) == BlobOf(JsonDumps(<<entry>>))

\* line 96 as an insert at the front
Upload_Prepend(existing, entry) == BlobOf(JsonDumps(<<entry>> \o existing))

\* line 96 and 98: existing_data.append(new_entry); upload_blob(json.dumps(..))
Upload(existing, entry) == BlobOf(JsonDumps(Append(existing, entry)))

\* lines 100-105
CalcPayload(body, calc) ==
    [roi |-> calc.roi,
     net_benefit |-> calc.net_benefit,
     expected_success |-> calc.expected_success,
     industry_type |-> Get(body, "industry_type"),
     project_duration |-> Get(body, "project_duration")]

\* ------------------------------------------------------------ responses
AllowOrigin == {<<"Access-Control-Allow-Origin", "*">>}

CorsHeaders ==
    {<<"Access-Control-Allow-Origin", "*">>,
     <<"Access-Control-Allow-Methods", "POST, GET, OPTIONS">>,
     <<"Access-Control-Allow-Headers", "Content-Type, Authorization">>,
     <<"Access-Control-Allow-Credentials", "true">>}

CalcErrorHeaders ==
    {<<"Access-Control-Allow-Origin", "*">>,
     <<"Access-Control-Allow-Methods", "POST, OPTIONS">>,
     <<"Access-Control-Allow-Headers", "Content-Type, Authorization">>}

Response(status, payload, headers) ==
    [status |-> status, payload |-> payload, headers |-> headers]

\* lines 21-31 without the credentials header
handle_cors_NoCredentials ==
    Response(200, [empty |-> TRUE],
             {<<"Access-Control-Allow-Origin", "*">>,
              <<"Access-Control-Allow-Methods", "POST, GET, OPTIONS">>,
              <<"Access-Control-Allow-Headers", "Content-Type, Authorization">>})

\* lines 21-31
handle_cors == Response(200, [empty |-> TRUE], CorsHeaders)

ErrorPayload(text) == [error |-> text]

\* ------------------------------------------------------- anomaly client
\* line 161
RECURSIVE Series(_, _)
Series(data, i) ==
    IF i > Len(data) THEN Ok(<<>>)
    ELSE IF {"timestamp", "roi"} \subseteq DOMAIN data[i]
         THEN Then(Series(data, i + 1),
                   LAMBDA rest : Ok(<<[timestamp |-> data[i]["timestamp"],
                                       value |-> data[i]["roi"]]>> \o rest))
         ELSE Raise("KeyError")

\* lines 183-187 without the filter of line 186
RECURSIVE Anomalies_Unfiltered(_, _, _)
Anomalies_Unfiltered(data, flags, i) ==
    IF i > Len(flags) THEN Ok(<<>>)
    ELSE IF i > Len(data) THEN Raise("IndexError")
    ELSE Then(Anomalies_Unfiltered(data, flags, i + 1),
              LAMBDA rest : Ok(<<("isAnomaly" :> TRUE) @@ data[i]>> \o rest))

\* lines 183-187: {**data[i], "isAnomaly": True} for each flagged position
\* (Python counts from 0; sequences here count from 1)
RECURSIVE Anomalies(_, _, _)
Anomalies(data, flags, i) ==
    IF i > Len(flags) THEN Ok(<<>>)
    ELSE IF ~flags[i] THEN Anomalies(data, flags, i + 1)
    ELSE IF i > Len(data) THEN Raise("IndexError")
    ELSE Then(Anomalies(data, flags, i + 1),
              LAMBDA rest : Ok(<<("isAnomaly" :> TRUE) @@ data[i]>> \o rest))

\* -------------------------------------------------------------- inputs
B0 ==
    [project_budget |-> PyInt(100000), employee_impact |-> PyInt(10),
     project_duration |-> PyInt(2), average_salary |-> PyInt(50000),
     risk_level |-> PyInt(3), industry_type |-> Str("tech"),
     previous_success |-> PyInt(80), leadership_alignment |-> PyInt(4),
     employee_readiness |-> PyInt(4), communication_plan |-> PyInt(4),
     training_budget |-> PyInt(5000)]

B1 ==
    [project_budget |-> PyInt(7), employee_impact |-> PyInt(3),
     project_duration |-> PyInt(5), average_salary |-> PyInt(11),
     risk_level |-> PyInt(1), industry_type |-> Str("retail"),
     previous_success |-> PyInt(50), leadership_alignment |-> PyInt(1),
     employee_readiness |-> PyInt(2), communication_plan |-> PyInt(4),
     training_budget |-> PyInt(20)]

\* a body req.get_json() cannot decode
InvalidBody == [invalid |-> TRUE]

\* B0 with one field absent, zero or the empty string
OneOff(v) == {[B0 EXCEPT ![k] = v] : k \in FieldSet}

\* request bodies of the concurrent specification: a valid one (its records
\* differ by their timestamps), and one for each way calculate_roi answers
\* before touching the store
Bodies ==
    {InvalidBody, B0,
     [B0 EXCEPT !["training_budget"] = Null],
     [B0 EXCEPT !["project_budget"] = PyInt(0)],
     [B0 EXCEPT !["previous_success"] = Str("")]}

\* request bodies of the sequential specification: a second valid one, with
\* other results
SeqBodies == Bodies \cup {B1}

\* request bodies of the single-invocation specification: every field in
\* turn absent, zero or empty, and a grid of numeric inputs (one a float)
Grid ==
    {[B0 EXCEPT !["project_budget"] = pb, !["employee_impact"] = ei,
                !["project_duration"] = pd, !["average_salary"] = av,
                !["previous_success"] = ps, !["leadership_alignment"] = la,
                !["employee_readiness"] = er, !["communication_plan"] = cp] :
        pb \in {PyInt(7), PyInt(100000)}, ei \in {PyInt(3), PyInt(10)},
        pd \in {PyInt(2), Rat(5, 2, TRUE)}, av \in {PyInt(11), PyInt(50000)},
        ps \in {PyInt(50), PyInt(80)}, la \in {PyInt(1), PyInt(4)},
        er \in {PyInt(2), PyInt(4)}, cp \in {PyInt(4), PyInt(5)}}

\* a field absent next to one that the computation could not take
TwoOff ==
    {[B0 EXCEPT !["training_budget"] = Null, !["project_budget"] = PyInt(0)],
     [B0 EXCEPT !["project_budget"] = Null, !["previous_success"] = Str("")],
     [B0 EXCEPT !["risk_level"] = Null, !["industry_type"] = Null]}

WideBodies ==
    {InvalidBody, B1} \cup Grid \cup OneOff(Null) \cup OneOff(PyInt(0)) \cup OneOff(Str(""))
        \cup TwoOff

\* bodies sent along with a preflight
OptionBodies == {InvalidBody, B0}

\* str(datetime.now()): two calls may see the same clock reading
Timestamps == {"t1", "t2"}

RECURSIVE BoolSeqs(_)
BoolSeqs(n) ==
    IF n = 0 THEN {<<>>}
    ELSE LET shorter == BoolSeqs(n - 1)
         IN  shorter \cup {Append(f, b) : f \in {g \in shorter : Len(g) = n - 1}, b \in BOOLEAN}

\* what requests.post(...) can give back
ClientReply(raised, status, json, has, flags) ==
    [raised |-> raised, status |-> status, json |-> json, has |-> has, isAnomaly |-> flags]

ClientReplies ==
    {ClientReply("ConnectionError", 0, "", FALSE, <<>>),
     ClientReply("", 503, "object", FALSE, <<>>),
     ClientReply("", 200, "invalid", FALSE, <<>>),
     ClientReply("", 200, "object", FALSE, <<>>)}
    \cup {ClientReply("", 200, "object", TRUE, f) : f \in BoolSeqs(MaxFlags)}

\* the replies with at most one flag: where the flags are not the matter
FewReplies == {r \in ClientReplies : Len(r.isAnomaly) <= 1}

\* --------------------------------------------------------------- state
VARIABLES
    blob,           \* the blob roi_data.json
    pc,             \* per invocation: "idle", or "calc_write" between lines 85 and 98
    req_body,       \* calculate_roi: the request body being handled
    existing_data,  \* calculate_roi: local of lines 83-96
    readError,      \* calculate_roi: the except branch of line 84 was taken
    seen,           \* calculate_roi: the History the store held at the read of line 83
    new_entry,      \* calculate_roi: local of lines 87-95
    acked,          \* log of the status-200 calculateROI calls: entry written, payload returned
    lostBy,         \* why a write dropped records of the store: "read_error", "stale_read"
    last            \* the call that completed last: request, response, store and client calls

vars == <<blob, pc, req_body, existing_data, readError, seen, new_entry, acked, lostBy, last>>

NoBody == [none |-> TRUE]
NoEntry == [none |-> TRUE]
NoReply == ClientReply("", 0, "", FALSE, <<>>)

Call(route, method, body, resp, calls, data, rerr, entry, series, client) ==
    [route |-> route, method |-> method, body |-> body, resp |-> resp,
     calls |-> calls, data |-> data, readError |-> rerr, entry |-> entry,
     series |-> series, client |-> client]

NoCall == Call("", "", NoBody, Response(0, [empty |-> TRUE], {}), {}, <<>>, FALSE,
               NoEntry, <<>>, NoReply)

InFlight == Cardinality({p \in Procs : pc[p] = "calc_write"})

Init ==
    /\ blob \in {NoBlob, EmptyBlob, CorruptBlob}
    /\ pc = [p \in Procs |-> "idle"]
    /\ req_body = [p \in Procs |-> NoBody]
    /\ existing_data = [p \in Procs |-> <<>>]
    /\ readError = [p \in Procs |-> FALSE]
    /\ seen = [p \in Procs |-> <<>>]
    /\ new_entry = [p \in Procs |-> NoEntry]
    /\ acked = <<>>
    /\ lostBy = {}
    /\ last = NoCall

Locals == <<req_body, existing_data, readError, seen, new_entry>>

\* lines 41-42, 125-126, 150-151: the preflight of any route
Options(bodies) ==
    /\ \E route \in {"calculateROI", "getROI", "detectAnomalies"}, body \in bodies :
         last' = Call(route, "OPTIONS", body, handle_cors, {}, <<>>, FALSE,
                      NoEntry, <<>>, NoReply)
    /\ UNCHANGED <<blob, pc, Locals, acked, lostBy>>

\* calculate_roi, lines 45-76: decoding, validation and computation; the
\* early return of line 64 is told apart from an exception by its text
MissingFields == "Missing input fields"

Evaluate(body) ==
    IF body = InvalidBody THEN Raise("ValueError")
    ELSE IF MissingInput(body) THEN Raise(MissingFields)
    ELSE Calculate(body)

\* lines 64-66 and 108-115: the answer to a request that Evaluate stops
RejectResponse(body) ==
    IF Evaluate(body).raised = MissingFields
    THEN Response(400, ErrorPayload(MissingFields), AllowOrigin)
    ELSE Response(500, ErrorPayload(Evaluate(body).raised), CalcErrorHeaders)

\* calculate_roi, lines 44-66 and 108-115: a request that is answered
\* before the store is touched
CalcReject(bodies) ==
    /\ \E body \in bodies :
         /\ Evaluate(body).raised # ""
         /\ last' = Call("calculateROI", "POST", body, RejectResponse(body), {}, <<>>,
                         FALSE, NoEntry, <<>>, NoReply)
    /\ UNCHANGED <<blob, pc, Locals, acked, lostBy>>

\* lines 44-95 without the try/except of lines 82-85: a read that raises
\* ends the call with status 500
CalcRead_NoExcept(p, bodies, faults) ==
    /\ pc[p] = "idle"
    /\ \A q \in Procs : q < p => pc[q] # "idle"
    /\ InFlight + Len(acked) < MaxCalls
    /\ \E body \in bodies, fault \in faults, now \in Timestamps :
         /\ Evaluate(body).raised = ""
         /\ IF ReadStore(blob, fault).raised # ""
            THEN /\ last' = Call("calculateROI", "POST", body,
                                 Response(500, ErrorPayload(ReadStore(blob, fault).raised),
                                          CalcErrorHeaders),
                                 {"download_blob"}, <<>>, TRUE,
                                 NewEntry(body, Evaluate(body).val, now), <<>>, NoReply)
                 /\ UNCHANGED <<pc, Locals>>
            ELSE /\ req_body' = [req_body EXCEPT ![p] = body]
                 /\ existing_data' = [existing_data EXCEPT ![p] = ReadStore(blob, fault).val]
                 /\ readError' = [readError EXCEPT ![p] = FALSE]
                 /\ seen' = [seen EXCEPT ![p] = History(blob)]
                 /\ new_entry' = [new_entry EXCEPT ![p] = NewEntry(body, Evaluate(body).val, now)]
                 /\ pc' = [pc EXCEPT ![p] = "calc_write"]
                 /\ last' = last
    /\ UNCHANGED <<blob, acked, lostBy>>

\* calculate_roi, lines 44-95: validation, computation and the read of the store
CalcRead(p, bodies, faults) ==
    /\ pc[p] = "idle"
    /\ \A q \in Procs : q < p => pc[q] # "idle"
    /\ InFlight + Len(acked) < MaxCalls
    /\ \E body \in bodies, fault \in faults, now \in Timestamps :
         /\ Evaluate(body).raised = ""
         /\ req_body' = [req_body EXCEPT ![p] = body]
         /\ existing_data' = [existing_data EXCEPT ![p] = ReadForAppend(blob, fault)]
         /\ readError' = [readError EXCEPT ![p] = ReadStore(blob, fault).raised # ""]
         /\ seen' = [seen EXCEPT ![p] = History(blob)]
         /\ new_entry' = [new_entry EXCEPT ![p] = NewEntry(body, Evaluate(body).val, now)]
    /\ pc' = [pc EXCEPT ![p] = "calc_write"]
    /\ UNCHANGED <<blob, acked, lostBy, last>>

Reset(p) ==
    /\ pc' = [pc EXCEPT ![p] = "idle"]
    /\ req_body' = [req_body EXCEPT ![p] = NoBody]
    /\ existing_data' = [existing_data EXCEPT ![p] = <<>>]
    /\ readError' = [readError EXCEPT ![p] = FALSE]
    /\ seen' = [seen EXCEPT ![p] = <<>>]
    /\ new_entry' = [new_entry EXCEPT ![p] = NoEntry]

\* why the write of p drops records of the store: its read raised and hid
\* the records the store held, or the store was written since its read
Loss(p) ==
    (IF existing_data[p] # seen[p] THEN {"read_error"} ELSE {})
        \cup (IF seen[p] # History(blob) THEN {"stale_read"} ELSE {})

\* lines 96-106 appending to what the store holds at the time of the write
CalcWrite_Merge(p) ==
    /\ pc[p] = "calc_write"
    /\ blob' = Upload(History(blob), new_entry[p])
    /\ acked' = Append(acked, [entry |-> new_entry[p],
                               payload |-> CalcPayload(req_body[p], Evaluate(req_body[p]).val)])
    /\ lostBy' = lostBy \cup Loss(p)
    /\ last' = Call("calculateROI", "POST", req_body[p],
                    Response(200, CalcPayload(req_body[p], Evaluate(req_body[p]).val),
                             AllowOrigin),
                    {"download_blob", "upload_blob"}, existing_data[p], readError[p],
                    new_entry[p], <<>>, NoReply)
    /\ Reset(p)

\* calculate_roi, lines 96-106: append, overwrite the blob, answer
CalcWrite(p) ==
    /\ pc[p] = "calc_write"
    /\ blob' = Upload(existing_data[p], new_entry[p])
    /\ acked' = Append(acked, [entry |-> new_entry[p],
                               payload |-> CalcPayload(req_body[p], Evaluate(req_body[p]).val)])
    /\ lostBy' = lostBy \cup Loss(p)
    /\ last' = Call("calculateROI", "POST", req_body[p],
                    Response(200, CalcPayload(req_body[p], Evaluate(req_body[p]).val),
                             AllowOrigin),
                    {"download_blob", "upload_blob"}, existing_data[p], readError[p],
                    new_entry[p], <<>>, NoReply)
    /\ Reset(p)

\* lines 98 and 108-115 with the blob replaced before the error is raised
CalcWriteFails_Stored(p) ==
    /\ pc[p] = "calc_write"
    /\ blob' = Upload(existing_data[p], new_entry[p])
    /\ last' = Call("calculateROI", "POST", req_body[p],
                    Response(500, ErrorPayload("HttpResponseError"), CalcErrorHeaders),
                    {"download_blob", "upload_blob"}, existing_data[p], readError[p],
                    new_entry[p], <<>>, NoReply)
    /\ Reset(p)
    /\ UNCHANGED <<acked, lostBy>>

\* calculate_roi, lines 98 and 108-115: upload_blob raises, nothing is stored
CalcWriteFails(p) ==
    /\ pc[p] = "calc_write"
    /\ last' = Call("calculateROI", "POST", req_body[p],
                    Response(500, ErrorPayload("HttpResponseError"), CalcErrorHeaders),
                    {"download_blob", "upload_blob"}, existing_data[p], readError[p],
                    new_entry[p], <<>>, NoReply)
    /\ Reset(p)
    /\ UNCHANGED <<blob, acked, lostBy>>

\* lines 132-140 with a failed read taken for an empty history
GetRoiResponse_Empty(r) ==
    IF r.raised # ""
    THEN Response(200, [roi_data |-> <<>>], AllowOrigin)
    ELSE Response(200, [roi_data |-> r.val], AllowOrigin)

\* lines 132-140: the answer of get_roi_data to the outcome r of the read
GetRoiResponse(r) ==
    IF r.raised # ""
    THEN Response(500, ErrorPayload(r.raised), AllowOrigin)
    ELSE Response(200, [roi_data |-> r.val], AllowOrigin)

\* get_roi_data, lines 128-140
GetRoi(faults) ==
    /\ \E fault \in faults :
         LET r == ReadStore(blob, fault)
         IN  last' = Call("getROI", "GET", NoBody, GetRoiResponse(r), {"download_blob"},
                          IF r.raised # "" THEN <<>> ELSE r.val, r.raised # "", NoEntry,
                          <<>>, NoReply)
    /\ UNCHANGED <<blob, pc, Locals, acked, lostBy>>

\* detect_anomalies, lines 153-157 and 192-194: the read of the store raises
DetectReadFails(faults) ==
    /\ \E fault \in faults :
         LET r == ReadStore(blob, fault)
         IN  /\ r.raised # ""
             /\ last' = Call("detectAnomalies", "GET", NoBody,
                             Response(500, ErrorPayload(r.raised), AllowOrigin),
                             {"download_blob"}, <<>>, TRUE, NoEntry, <<>>, NoReply)
    /\ UNCHANGED <<blob, pc, Locals, acked, lostBy>>

\* lines 175-190 and 192-194: the answer of detect_anomalies once the
\* client has replied
DetectResponse(data, reply) ==
    IF reply.raised # "" THEN Response(500, ErrorPayload(reply.raised), AllowOrigin)
    ELSE IF reply.status # 200
         THEN Response(reply.status, ErrorPayload("Anomaly Detector API failed"), AllowOrigin)
    ELSE IF reply.json = "invalid"
         THEN Response(500, ErrorPayload("JSONDecodeError"), AllowOrigin)
    ELSE LET anomalies == Anomalies(data, IF reply.has THEN reply.isAnomaly ELSE <<>>, 1)
         IN  IF anomalies.raised # ""
             THEN Response(500, ErrorPayload(anomalies.raised), AllowOrigin)
             ELSE Response(200, [anomalies |-> anomalies.val], AllowOrigin)

\* detect_anomalies, lines 153-194: the store was read, the series is posted
DetectAnomalies(replies) ==
    /\ ReadStore(blob, FALSE).raised = ""
    /\ LET data == ReadStore(blob, FALSE).val
           series == Series(data, 1)
       IN  IF series.raised # ""
           THEN last' = Call("detectAnomalies", "GET", NoBody,
                             Response(500, ErrorPayload(series.raised), AllowOrigin),
                             {"download_blob"}, data, FALSE, NoEntry, <<>>, NoReply)
           ELSE \E reply \in replies :
                  last' = Call("detectAnomalies", "GET", NoBody,
                               DetectResponse(data, reply),
                               {"download_blob", "post"}, data, FALSE, NoEntry,
                               series.val, reply)
    /\ UNCHANGED <<blob, pc, Locals, acked, lostBy>>

\* ------------------------------------------------------- specifications
\* the handlers that answer in one step run beside any invocation in
\* flight; a calculateROI invocation that reaches the store takes the
\* lowest free slot of Procs (invocations have no identity of their own)

\* any number of invocations at once, store reads and writes may fail
\* for a transient reason
Next ==
    \/ Options(OptionBodies)
    \/ CalcReject(Bodies)
    \/ \E p \in Procs : CalcRead(p, Bodies, BOOLEAN)
    \/ \E p \in Procs : CalcWrite(p)
    \/ \E p \in Procs : CalcWriteFails(p)
    \/ GetRoi(BOOLEAN)
    \/ DetectReadFails(BOOLEAN)
    \/ DetectAnomalies(FewReplies)

Spec == Init /\ [][Next]_vars

\* one invocation at a time, no store call fails for a transient reason,
\* the client may reply with any flags
Quiet == \A q \in Procs : pc[q] = "idle"

NextSeq ==
    \/ Quiet /\ Options(OptionBodies)
    \/ Quiet /\ CalcReject(SeqBodies)
    \/ \E p \in Procs : Quiet /\ CalcRead(p, SeqBodies, {FALSE})
    \/ \E p \in Procs : CalcWrite(p)
    \/ Quiet /\ GetRoi({FALSE})
    \/ Quiet /\ DetectReadFails({FALSE})
    \/ Quiet /\ DetectAnomalies(ClientReplies)

SpecSeq == Init /\ [][NextSeq]_vars

\* a single calculateROI invocation, on a store that is absent, unreadable
\* or holds the record of one earlier call
StoredEntry == NewEntry(B1, Calculate(B1).val, "t1")

InitOne ==
    /\ \/ /\ blob \in {NoBlob, EmptyBlob, CorruptBlob}
          /\ acked = <<>>
       \/ /\ blob = Upload(<<>>, StoredEntry)
          /\ acked = <<[entry |-> StoredEntry, payload |-> CalcPayload(B1, Calculate(B1).val)]>>
    /\ pc = [p \in Procs |-> "idle"]
    /\ req_body = [p \in Procs |-> NoBody]
    /\ existing_data = [p \in Procs |-> <<>>]
    /\ readError = [p \in Procs |-> FALSE]
    /\ seen = [p \in Procs |-> <<>>]
    /\ new_entry = [p \in Procs |-> NoEntry]
    /\ lostBy = {}
    /\ last = NoCall

NextOne ==
    \/ Quiet /\ last = NoCall /\ CalcReject(WideBodies)
    \/ \E p \in Procs : Quiet /\ last = NoCall /\ CalcRead(p, WideBodies, BOOLEAN)
    \/ \E p \in Procs : CalcWrite(p)
    \/ \E p \in Procs : CalcWriteFails(p)

SpecOne == InitOne /\ [][NextOne]_vars

\* --------------------------------------------------------------- claims
IsCall(route, method) == last.route = route /\ last.method = method

Entries(log) == [i \in 1 .. Len(log) |-> log[i].entry]

Count(seq, e) == Cardinality({i \in 1 .. Len(seq) : seq[i] = e})

\* the five fields a calculateROI response carries, taken from a record
Returned(rec) ==
    [roi |-> rec["roi"], net_benefit |-> rec["net_benefit"],
     expected_success |-> rec["expected_success"],
     industry_type |-> rec["industry_type"],
     project_duration |-> rec["project_duration"]]

\* C1: one call after another and no transient store failure: a getROI
\* that follows N >= 1 successful calculateROI calls answers 200 with
\* exactly N records, in the order of the calls, and the roi, net_benefit,
\* expected_success, industry_type and project_duration of the i-th record
\* are the ones the i-th calculateROI response carried.
C1_ReadReturnsAppended ==
    (IsCall("getROI", "GET") /\ Len(acked) >= 1) =>
        /\ last.resp.status = 200
        /\ "roi_data" \in DOMAIN last.resp.payload
        /\ Len(last.resp.payload.roi_data) = Len(acked)
        /\ \A i \in 1 .. Len(acked) :
             Returned(last.resp.payload.roi_data[i]) = acked[i].payload

C1_Witness ==
    /\ IsCall("getROI", "GET")
    /\ last.resp.status = 200
    /\ Len(acked) = 2
    /\ acked[1].payload # acked[2].payload

\* exact arithmetic on n/d pairs, as the claim's formulas read
QNorm(n, d) ==
    LET g == Gcd(Abs(n), Abs(d))
        sg == IF d < 0 THEN -1 ELSE 1
    IN  <<(sg * n) \div g, (sg * d) \div g>>
Q(v) == QNorm(v.n, v.d)
QMul(a, b) == QNorm(a[1] * b[1], a[2] * b[2])
QDiv(a, b) == QNorm(a[1] * b[2], a[2] * b[1])
QSub(a, b) == QNorm(a[1] * b[2] - b[1] * a[2], a[2] * b[2])
QAdd(a, b) == QNorm(a[1] * b[2] + b[1] * a[2], a[2] * b[2])
QEq(a, b) == a = b

ComputedFrom ==
    {"project_budget", "employee_impact", "project_duration", "average_salary",
     "previous_success", "leadership_alignment", "employee_readiness", "communication_plan"}

Computable(body) ==
    /\ body # InvalidBody
    /\ \A k \in FieldSet : body[k] # Null
    /\ \A k \in ComputedFrom : IsNum(body[k])
    /\ body["project_budget"].n # 0

ExpectedSuccess(body) ==
    QDiv(QMul(Q(body["previous_success"]),
              QAdd(QAdd(Q(body["leadership_alignment"]), Q(body["employee_readiness"])),
                   Q(body["communication_plan"]))),
         <<15, 1>>)

NetBenefit(body) ==
    QSub(QMul(QMul(QMul(Q(body["employee_impact"]), Q(body["average_salary"])),
                   Q(body["project_duration"])),
              QDiv(ExpectedSuccess(body), <<100, 1>>)),
         Q(body["project_budget"]))

Roi(body) == QMul(QDiv(NetBenefit(body), Q(body["project_budget"])), <<100, 1>>)

\* C2: a calculateROI request whose fields are all present, with numbers in
\* the eight fields of the formula and a budget other than zero, is not
\* rejected, and the values it returns are expected_success =
\* previous_success * (leadership + readiness + communication) / 15,
\* net_benefit = impact * salary * duration * (expected_success / 100) -
\* budget and roi = net_benefit / budget * 100, whatever risk_level and
\* training_budget are; the spec's example gives 64, 540000 and 540.
C2_Formula ==
    (IsCall("calculateROI", "POST") /\ Computable(last.body)) =>
        /\ last.resp.status = 200 \/ "upload_blob" \in last.calls
        /\ last.resp.status = 200 =>
             /\ QEq(Q(last.resp.payload.expected_success), ExpectedSuccess(last.body))
             /\ QEq(Q(last.resp.payload.net_benefit), NetBenefit(last.body))
             /\ QEq(Q(last.resp.payload.roi), Roi(last.body))
             /\ last.body = B0 =>
                  /\ Q(last.resp.payload.expected_success) = <<64, 1>>
                  /\ Q(last.resp.payload.net_benefit) = <<540000, 1>>
                  /\ Q(last.resp.payload.roi) = <<540, 1>>

C2_Witness ==
    /\ IsCall("calculateROI", "POST")
    /\ last.resp.status = 200
    /\ last.body \in Grid
    /\ last.body # B0
    /\ last.resp.payload.expected_success.d # 1

\* C3 as stated: every record whose calculateROI call returned 200 is in
\* the stored History, unchanged and exactly once, whatever the calls
\* and their interleaving.
C3_Original ==
    \A i \in 1 .. Len(acked) :
        Count(History(blob), acked[i].entry) = Count(Entries(acked), acked[i].entry)

\* C3 as amended: as long as no successful calculateROI call has written
\* from a History other than the stored one (its read raised while the
\* store held records, or another call wrote between its read and its
\* write), the stored History is exactly the records of the calls that
\* returned 200, one per call, unchanged, in the order of the writes;
\* no other operation changes it.
C3_AppendOnly == lostBy = {} => History(blob) = Entries(acked)

C3_Witness ==
    /\ lostBy = {}
    /\ Len(acked) = 2
    /\ acked[1].entry = acked[2].entry
    /\ IsCall("detectAnomalies", "GET")

\* C4 as stated: a valid calculateROI request whose read of the store
\* fails returns 200, and after the write the stored History is the new
\* record alone.
C4_Original ==
    (IsCall("calculateROI", "POST") /\ last.readError) =>
        /\ last.resp.status = 200
        /\ History(blob) = <<last.entry>>

\* C4 as amended: a valid calculateROI request whose read of the store
\* fails does not fail for that: unless the write of the store raises
\* (status 500 with the error of the write), it returns 200 and after the
\* write the stored History is the new record alone.
C4_ReadFailureIsEmptyHistory ==
    (IsCall("calculateROI", "POST") /\ last.readError) =>
        \/ /\ last.resp.status = 200
           /\ History(blob) = <<last.entry>>
        \/ /\ last.resp.status = 500
           /\ last.resp.payload = [error |-> "HttpResponseError"]

C4_Witness ==
    /\ IsCall("calculateROI", "POST")
    /\ last.readError
    /\ last.resp.status = 200
    /\ Len(acked) = 2
    /\ History(blob) = <<last.entry>>

Unreadable(b) == ReadStore(b, FALSE).raised # ""

\* C5: a GET of getROI or detectAnomalies that finds the store absent,
\* empty or unparseable, or whose read raises, answers 500 with an error
\* payload, never 200 with an empty list, and detectAnomalies does not
\* call the anomaly client.
C5_ReadFailureSurfaced ==
    ((IsCall("getROI", "GET") \/ IsCall("detectAnomalies", "GET"))
        /\ (Unreadable(blob) \/ last.readError)) =>
        /\ last.resp.status = 500
        /\ DOMAIN last.resp.payload = {"error"}
        /\ "post" \notin last.calls
        /\ last.series = <<>>

C5_Witness ==
    /\ IsCall("detectAnomalies", "GET")
    /\ blob = CorruptBlob
    /\ last.resp.status = 500

C6_State ==
    (IsCall("calculateROI", "POST") /\ last.body # InvalidBody) =>
        /\ last.resp.status = 400 <=> \E k \in FieldSet : last.body[k] = Null
        /\ last.resp.status = 400 =>
             /\ last.resp.payload = [error |-> "Missing input fields"]
             /\ last.calls = {}

\* C6: a calculateROI POST whose body lacks one of the eleven fields (or
\* has it null) gets 400 with the missing-fields error without any call to
\* the store, and the store is left as it was; a body that has all eleven
\* is never answered 400, even with zero or empty-string values.
C6_MissingFieldRejected ==
    /\ []C6_State
    /\ [][last'.resp.status = 400 => blob' = blob]_vars

C6_Witness ==
    /\ IsCall("calculateROI", "POST")
    /\ last.body = [B0 EXCEPT !["training_budget"] = Null]
    /\ last.resp.status = 400
    /\ History(blob) = <<StoredEntry>>

Flagged(flags) == {i \in 1 .. Len(flags) : flags[i]}

\* the position of the k-th flagged entry
Nth(flags, k) ==
    CHOOSE i \in Flagged(flags) : Cardinality({j \in Flagged(flags) : j <= i}) = k

\* C7: detectAnomalies on a History of N records, with a client that
\* answers 200 and M <= N boolean flags, answers 200 with exactly the
\* records at the flagged positions, each with isAnomaly = true added, in
\* History order, and has posted one (timestamp, roi) pair per record in
\* History order.
C7_FlaggedRecords ==
    (/\ IsCall("detectAnomalies", "GET")
     /\ ~last.readError
     /\ last.client.raised = "" /\ last.client.status = 200
     /\ last.client.json = "object" /\ last.client.has
     /\ Len(last.client.isAnomaly) <= Len(last.data)) =>
        LET flags == last.client.isAnomaly
            data == last.data
        IN  /\ data = History(blob)
            /\ last.resp.status = 200
            /\ DOMAIN last.resp.payload = {"anomalies"}
            /\ Len(last.resp.payload.anomalies) = Cardinality(Flagged(flags))
            /\ \A k \in 1 .. Cardinality(Flagged(flags)) :
                 LET a == last.resp.payload.anomalies[k]
                     rec == data[Nth(flags, k)]
                 IN  /\ DOMAIN a = DOMAIN rec \cup {"isAnomaly"}
                     /\ a["isAnomaly"] = TRUE
                     /\ \A f \in DOMAIN rec : a[f] = rec[f]
            /\ Len(last.series) = Len(data)
            /\ \A i \in 1 .. Len(data) :
                 last.series[i] = [timestamp |-> data[i]["timestamp"],
                                   value |-> data[i]["roi"]]

C7_Witness ==
    /\ IsCall("detectAnomalies", "GET")
    /\ Len(last.data) = 2
    /\ last.data[1] # last.data[2]
    /\ last.client.status = 200
    /\ last.client.has
    /\ last.client.isAnomaly = <<FALSE, TRUE>>
    /\ last.resp.status = 200

C8_State ==
    last.method = "OPTIONS" =>
        /\ last.route \in {"calculateROI", "getROI", "detectAnomalies"}
        /\ last.resp.status = 200
        /\ last.resp.payload = [empty |-> TRUE]
        /\ last.resp.headers =
             {<<"Access-Control-Allow-Origin", "*">>,
              <<"Access-Control-Allow-Methods", "POST, GET, OPTIONS">>,
              <<"Access-Control-Allow-Headers", "Content-Type, Authorization">>,
              <<"Access-Control-Allow-Credentials", "true">>}
        /\ last.calls = {}

\* C8: an OPTIONS request to any of the three routes gets 200 with an empty
\* body and the four CORS headers, whatever its body and the state of the
\* store, without any call to the store or to the anomaly client, and the
\* store is left as it was.
C8_Preflight ==
    /\ []C8_State
    /\ [][last'.method = "OPTIONS" => blob' = blob]_vars

C8_Witness ==
    /\ IsCall("detectAnomalies", "OPTIONS")
    /\ last.body = InvalidBody
    /\ Len(History(blob)) = 1
    /\ InFlight = 1

\* C9: the store changes only in the step in which a calculateROI call
\* returns 200, and then by that call's record: a calculateROI call that
\* returns anything else (missing fields, an exception of the computation,
\* an error of the write) and every getROI and detectAnomalies call leave
\* the stored History as it was.
C9_AllOrNothing ==
    [][/\ blob' # blob =>
            /\ last'.route = "calculateROI" /\ last'.method = "POST"
            /\ last'.resp.status = 200
            /\ Len(acked') = Len(acked) + 1
            /\ History(blob')[Len(History(blob'))] = last'.entry
       /\ (last' # last /\ last'.resp.status # 200) => blob' = blob
       /\ (last' # last /\ last'.route \in {"getROI", "detectAnomalies"}) => blob' = blob
      ]_vars

C9_Witness ==
    /\ IsCall("calculateROI", "POST")
    /\ last.resp.status = 500
    /\ "upload_blob" \in last.calls
    /\ Len(History(blob)) = 1
    /\ last.entry \notin {History(blob)[i] : i \in 1 .. Len(History(blob))}

\* C10: a write replaces the store by what its call read plus its record,
\* whatever the store holds by then; so when two calculateROI calls that
\* both return 200 read the store before either writes, the record of the
\* first writer is dropped and the stored History is shorter than the
\* number of successful calls.
C10_LostUpdate ==
    /\ (IsCall("calculateROI", "POST") /\ last.resp.status = 200) =>
           History(blob) = Append(last.data, last.entry)
    /\ "stale_read" \in lostBy => Len(History(blob)) < Len(acked)

C10_Witness ==
    /\ lostBy = {"stale_read"}
    /\ Len(acked) = 2
    /\ acked[1].entry # acked[2].entry
    /\ IsCall("calculateROI", "POST") /\ last.resp.status = 200
    /\ last.data = <<>>
    /\ History(blob) = <<acked[2].entry>>
====
